---- MODULE Spec2Model ----
(***************************************************************************)
(* Model of src/unix.rs: the unix IPC Endpoint, its SecurityAttributes and *)
(* the socket file it binds, chmods and unlinks.                           *)
(*                                                                         *)
(* Every Endpoint value is owned by one flow of control (its methods take  *)
(* &mut self), so the operations of one Endpoint are sequential; different *)
(* Endpoints share the filesystem and interleave at the granularity of the *)
(* OS calls: bind (UnixListener::bind), chmod and unlink (remove_file).    *)
(* incoming() makes two OS calls, so it is two steps: incoming_inner       *)
(* (lines 71-73) and incoming_apply_permissions (lines 74-81).             *)
(***************************************************************************)
EXTENDS Integers, Sequences, FiniteSets, TLC

\* Number of Endpoint handles (variables holding an Endpoint) of the program.
MaxEndpoints == 2

Endpoints == 1..MaxEndpoints

\* Number of client processes that call Endpoint::connect.
MaxConns == 1

Clients == 1..MaxConns

\* Length of the message each side of a connection writes.
MaxBytes == 2

\* The bytes the client side writes, in order (b1, b2, ...).
ClientMsg == [i \in 1..MaxBytes |-> i]

\* The bytes the server side writes, in order.
ServerMsg == [i \in 1..MaxBytes |-> MaxBytes + i]

\* Who calls connect: the user that owns the socket file, or another user.
Users == {"owner", "other"}

\* Filesystem paths handed to Endpoint::new.
Paths == {"p1"}

\* path: "".to_string() of from_raw_fd: names no file.
EmptyPath == ""

\* Some(0o777) of allow_everyone_connect.
EveryoneMode == 511

\* Mode of a socket file as bind creates it: 0o777 & ~umask, umask 0o022.
OSDefaultMode == 7 * 64 + 5 * 8 + 5

\* Modes handed to set_mode (0o600).
ModeInputs == {6 * 64}

\* Option<T>: None is the empty sequence, Some(x) is <<x>>.
None == << >>

Some(x) == <<x>>

(***************************************************************************)
(* SecurityAttributes: the value is its field `mode: Option<u16>`.         *)
(***************************************************************************)
empty == None

allow_everyone_connect(self) == Some(EveryoneMode)

set_mode(self, mode) == Some(mode)

allow_everyone_create == None

\* The SecurityAttributes values a caller can build.
SecurityAttributesInputs ==
    {empty, allow_everyone_connect(empty), allow_everyone_create}
        \cup {set_mode(empty, m) : m \in ModeInputs}
        \cup {set_mode(allow_everyone_connect(empty), m) : m \in ModeInputs}

VARIABLES
    live,                \* live[e]: handle e holds an Endpoint that is not dropped
    ctor,                \* ctor[e]: "none", "new" or "from_raw_fd"
    path,                \* Endpoint.path
    security_attributes, \* Endpoint.security_attributes (its mode)
    unix_listener,       \* Endpoint.unix_listener: None, Some(n) for the n-th
                         \* listener the Endpoint bound, Some(0) for an adopted one
    pc,                  \* position of e's flow of control: "idle", or "apply"
                         \* inside incoming() between bind and apply_permissions
    entry,               \* unix_listener[e] as it was when incoming() was entered
    result,              \* what the last incoming() call of e returned (NoResult
                         \* while a call on a bound Endpoint is in progress)
    binds,               \* successful binds of the Endpoint in e so far
    oks,                 \* Ok returns of incoming() on the Endpoint: 0, 1, 2 = more
    firstOk,             \* listener the first Ok incoming() of e returned
    fs,                  \* the filesystem: per path, the socket file if any
    conn,                \* conn[c]: the connection of client c (Connection.inner):
                         \* its state, the queued bytes of both directions, and
                         \* what each side has written and read so far
    backlog              \* backlog[e]: connections queued at e's listener, oldest
                         \* first, not yet yielded by the incoming() stream

\* The variables of the connections.
cvars == <<conn, backlog>>

vars == <<live, ctor, path, security_attributes, unix_listener, pc, entry,
          result, binds, oks, firstOk, fs, conn, backlog>>

\* A client that has not called connect yet.
NoConn == [st |-> "init", server |-> 0,
           up |-> << >>, upSent |-> 0, upRecv |-> << >>,
           down |-> << >>, downSent |-> 0, downRecv |-> << >>]

NoFile == [exists |-> FALSE, mode |-> 0, creator |-> 0]

\* What incoming() returned: the stream over listener fd, or the io::Error;
\* chmod tells whether the call issued the chmod OS call.
NoResult == [tag |-> "None", fd |-> 0, err |-> "", chmod |-> FALSE]

Ok(fd, chmod) == [tag |-> "Ok", fd |-> fd, err |-> "", chmod |-> chmod]

Err(kind, chmod) == [tag |-> "Err", fd |-> 0, err |-> kind, chmod |-> chmod]

\* self.unix_listener.as_mut().unwrap() panics on None.
Panic(chmod) == [tag |-> "Panic", fd |-> 0, err |-> "", chmod |-> chmod]

\* A file exists at p. The empty path names no file.
FileExists(p) == p \in Paths /\ fs[p].exists

\* UnixListener::bind creates the socket file with the OS default mode (a bind
\* to the empty path binds an abstract address and creates no file).
BindFile(e, p) ==
    IF p \in Paths
    THEN [fs EXCEPT ![p] = [exists |-> TRUE, mode |-> OSDefaultMode, creator |-> e]]
    ELSE fs

Init ==
    /\ live = [e \in Endpoints |-> FALSE]
    /\ ctor = [e \in Endpoints |-> "none"]
    /\ path = [e \in Endpoints |-> EmptyPath]
    /\ security_attributes = [e \in Endpoints |-> None]
    /\ unix_listener = [e \in Endpoints |-> None]
    /\ pc = [e \in Endpoints |-> "idle"]
    /\ entry = [e \in Endpoints |-> None]
    /\ result = [e \in Endpoints |-> NoResult]
    /\ binds = [e \in Endpoints |-> 0]
    /\ oks = [e \in Endpoints |-> 0]
    /\ firstOk = [e \in Endpoints |-> None]
    /\ fs = [p \in Paths |-> NoFile]
    /\ conn = [c \in Clients |-> NoConn]
    /\ backlog = [e \in Endpoints |-> << >>]

\* Endpoint::new(path): the handle e receives a fresh Endpoint.
new(e, p) ==
    /\ ~live[e]
    /\ live' = [live EXCEPT ![e] = TRUE]
    /\ ctor' = [ctor EXCEPT ![e] = "new"]
    /\ path' = [path EXCEPT ![e] = p]
    /\ security_attributes' = [security_attributes EXCEPT ![e] = empty]
    /\ unix_listener' = [unix_listener EXCEPT ![e] = None]
    /\ binds' = [binds EXCEPT ![e] = 0]
    /\ UNCHANGED <<pc, entry, result, oks, firstOk, fs, cvars>>

\* Mutant: from_raw_fd stores the path of a socket file.
from_raw_fd_path_real == "p1"

\* The path Endpoint::from_raw_fd stores.
from_raw_fd_path == EmptyPath

\* Endpoint::from_raw_fd(fd): adopts an open listening descriptor.
from_raw_fd(e) ==
    /\ ~live[e]
    /\ live' = [live EXCEPT ![e] = TRUE]
    /\ ctor' = [ctor EXCEPT ![e] = "from_raw_fd"]
    /\ path' = [path EXCEPT ![e] = from_raw_fd_path]
    /\ security_attributes' = [security_attributes EXCEPT ![e] = empty]
    /\ unix_listener' = [unix_listener EXCEPT ![e] = Some(0)]
    /\ entry' = [entry EXCEPT ![e] = Some(0)]
    /\ binds' = [binds EXCEPT ![e] = 0]
    /\ UNCHANGED <<pc, result, oks, firstOk, fs, cvars>>

\* Mutant: the setter applies the new mode to the file at once.
set_security_attributes_eager(e, attrs) ==
    /\ live[e] /\ pc[e] = "idle"
    /\ security_attributes' = [security_attributes EXCEPT ![e] = attrs]
    /\ fs' = IF attrs # None /\ FileExists(path[e])
             THEN [fs EXCEPT ![path[e]].mode = attrs[1]]
             ELSE fs
    /\ UNCHANGED <<live, ctor, path, unix_listener, pc, entry, result, binds,
                   oks, firstOk, cvars>>

\* Endpoint::set_security_attributes
set_security_attributes(e, attrs) ==
    /\ live[e] /\ pc[e] = "idle"
    /\ security_attributes' = [security_attributes EXCEPT ![e] = attrs]
    /\ UNCHANGED <<live, ctor, path, unix_listener, pc, entry, result, binds,
                   oks, firstOk, fs, cvars>>

\* Mutant: incoming() goes to apply_permissions without binding first.
incoming_binds_never(e) == FALSE

\* Mutant: incoming() binds on every call, without the is_none() guard.
incoming_binds_always(e) == TRUE

\* `if self.unix_listener.is_none()` of incoming(): whether incoming() binds.
incoming_binds(e) == unix_listener[e] = None

\* Mutant: once a bind of the Endpoint has failed, its binds keep failing.
inner_ok_unless_failed(e) == ~FileExists(path[e]) /\ result[e].tag # "Err"

\* Endpoint::inner: UnixListener::bind(&self.path) fails with EADDRINUSE iff a
\* file is at the path.
inner_ok(e) == ~FileExists(path[e])

\* incoming(), lines 71-73: enter the call and bind if there is no listener.
incoming_inner(e) ==
    /\ live[e] /\ pc[e] = "idle"
    /\ entry' = [entry EXCEPT ![e] = unix_listener[e]]
    /\ IF incoming_binds(e)
       THEN IF inner_ok(e)
            THEN /\ fs' = BindFile(e, path[e])
                 /\ unix_listener' = [unix_listener EXCEPT ![e] = Some(binds[e] + 1)]
                 /\ binds' = [binds EXCEPT ![e] = @ + 1]
                 /\ pc' = [pc EXCEPT ![e] = "apply"]
                 /\ UNCHANGED result
            ELSE \* `?` returns the error of bind; the listener stays None
                 /\ result' = [result EXCEPT ![e] = Err("AddrInUse", FALSE)]
                 /\ UNCHANGED <<fs, unix_listener, binds, pc>>
       ELSE /\ pc' = [pc EXCEPT ![e] = "apply"]
            /\ result' = [result EXCEPT ![e] = NoResult]
            /\ UNCHANGED <<fs, unix_listener, binds>>
    /\ UNCHANGED <<live, ctor, path, security_attributes, oks, firstOk, cvars>>

\* Mutant: permissions are applied only by the call that bound the listener.
apply_permissions_chmods_once(e) == security_attributes[e] # None /\ entry[e] = None

\* Mutant: an unset mode is applied as 0o777.
apply_permissions_mode_default(e) ==
    IF security_attributes[e] = None THEN Some(EveryoneMode) ELSE security_attributes[e]

\* `self.mode` as SecurityAttributes::apply_permissions reads it.
apply_permissions_mode(e) == security_attributes[e]

\* SecurityAttributes::apply_permissions issues chmod iff a mode is set.
apply_permissions_chmods(e) == apply_permissions_mode(e) # None

\* Mutant: a first incoming() whose apply_permissions fails takes the
\* listener back.
listener_after_error_rollback(e) == entry[e]

\* self.unix_listener when `?` at line 77 returns the error: untouched.
listener_after_error(e) == unix_listener[e]

\* The value incoming() returns once apply_permissions succeeded (line 81).
incoming_stream(e, chmod) ==
    IF unix_listener[e] = None THEN Panic(chmod) ELSE Ok(unix_listener[e][1], chmod)

\* incoming(), lines 74-81: apply_permissions(&self.path), then return the
\* accept stream of self.unix_listener.
incoming_apply_permissions(e) ==
    /\ live[e] /\ pc[e] = "apply"
    /\ pc' = [pc EXCEPT ![e] = "idle"]
    /\ entry' = [entry EXCEPT ![e] = unix_listener[e]]
    /\ IF apply_permissions_chmods(e) /\ ~FileExists(path[e])
       THEN \* chmod returns -1 (ENOENT): Err(Error::last_os_error())
            /\ result' = [result EXCEPT ![e] = Err("NotFound", TRUE)]
            /\ unix_listener' = [unix_listener EXCEPT ![e] = listener_after_error(e)]
            /\ UNCHANGED <<fs, oks, firstOk>>
       ELSE /\ fs' = IF apply_permissions_chmods(e)
                     THEN [fs EXCEPT ![path[e]].mode = apply_permissions_mode(e)[1]]
                     ELSE fs
            /\ UNCHANGED unix_listener
            /\ result' = [result EXCEPT ![e] =
                             incoming_stream(e, apply_permissions_chmods(e))]
            /\ oks' = [oks EXCEPT ![e] = IF @ < 2 THEN @ + 1 ELSE @]
            /\ firstOk' = [firstOk EXCEPT ![e] =
                              IF oks[e] = 0 THEN unix_listener[e] ELSE @]
    /\ UNCHANGED <<live, ctor, path, security_attributes, binds, cvars>>

\* Mutant: Drop does not remove the socket file.
drop_removes_nothing(e) == FALSE

\* Whether Drop's fs::remove_file(Path::new(&self.path)) unlinks a file.
drop_removes(e) == FileExists(path[e])

\* Drop for Endpoint: remove_file on the path, its error swallowed; the
\* fields are dropped with the value (ctor, path and binds stay on record).
drop(e) ==
    /\ live[e] /\ pc[e] = "idle"
    /\ live' = [live EXCEPT ![e] = FALSE]
    /\ fs' = IF drop_removes(e) THEN [fs EXCEPT ![path[e]] = NoFile] ELSE fs
    /\ security_attributes' = [security_attributes EXCEPT ![e] = None]
    /\ unix_listener' = [unix_listener EXCEPT ![e] = None]
    /\ entry' = [entry EXCEPT ![e] = None]
    /\ result' = [result EXCEPT ![e] = NoResult]
    /\ oks' = [oks EXCEPT ![e] = 0]
    /\ firstOk' = [firstOk EXCEPT ![e] = None]
    /\ UNCHANGED <<ctor, path, pc, binds, cvars>>

Next ==
    \/ \E e \in Endpoints, p \in Paths : new(e, p)
    \/ \E e \in Endpoints : from_raw_fd(e)
    \/ \E e \in Endpoints, attrs \in SecurityAttributesInputs : set_security_attributes(e, attrs)
    \/ \E e \in Endpoints : incoming_inner(e)
    \/ \E e \in Endpoints : incoming_apply_permissions(e)
    \/ \E e \in Endpoints : drop(e)

Spec == Init /\ [][Next]_vars

(***************************************************************************)
(* Connections: Endpoint::connect, the items of the incoming() stream, and *)
(* Connection's AsyncRead / AsyncWrite, which pass through to the stream.  *)
(***************************************************************************)
\* The variables of the Endpoints and the filesystem.
evars == <<live, ctor, path, security_attributes, unix_listener, pc, entry,
           result, binds, oks, firstOk, fs>>

Min(a, b) == IF a <= b THEN a ELSE b

\* The OS stream socket: a write appends the bytes to the queue of its
\* direction; a read into a buffer of k bytes takes the oldest bytes.
StreamWrite(q, bytes) == q \o bytes

StreamRead(q, k) ==
    [data |-> SubSeq(q, 1, Min(k, Len(q))),
     rest |-> SubSeq(q, Min(k, Len(q)) + 1, Len(q))]

\* Mutant: the wrapper passes the buffer to the inner stream twice.
poll_write_twice(q, buf) == StreamWrite(StreamWrite(q, buf), buf)

\* Connection::poll_write: Pin::new(&mut this.inner).poll_write(ctx, buf)
poll_write(q, buf) == StreamWrite(q, buf)

\* Connection::poll_read: Pin::new(&mut this.inner).poll_read(ctx, buf)
poll_read(q, k) == StreamRead(q, k)

\* connect() on a socket file needs write permission on it: the owner's
\* write bit (0o200) for the owner, the others' write bit (0o002) otherwise.
MayConnect(who, mode) ==
    IF who = "owner" THEN (mode \div 128) % 2 = 1 ELSE (mode \div 2) % 2 = 1

\* UnixStream::connect(path) succeeds iff a socket file is at the path, the
\* listener that bound it is open, and the file's mode lets the caller in.
connect_ok(who, p) ==
    /\ FileExists(p)
    /\ fs[p].creator \in Endpoints
    /\ live[fs[p].creator] /\ unix_listener[fs[p].creator] # None
    /\ MayConnect(who, fs[p].mode)

\* Endpoint::connect(path): Ok(Connection::wrap(stream)), or the OS error.
connect(c, who, p) ==
    /\ conn[c].st = "init"
    /\ IF connect_ok(who, p)
       THEN /\ conn' = [conn EXCEPT ![c] =
                           [NoConn EXCEPT !.st = "pending",
                                          !.server = fs[p].creator]]
            /\ backlog' = [backlog EXCEPT ![fs[p].creator] = Append(@, c)]
       ELSE /\ conn' = [conn EXCEPT ![c] = [NoConn EXCEPT !.st = "failed"]]
            /\ UNCHANGED backlog
    /\ UNCHANGED evars

\* The next item of the stream incoming() returned: the oldest connection
\* queued at the listener.
accept(e) ==
    /\ live[e] /\ pc[e] = "idle" /\ result[e].tag = "Ok"
    /\ backlog[e] # << >>
    /\ conn' = [conn EXCEPT ![Head(backlog[e])].st = "accepted"]
    /\ backlog' = [backlog EXCEPT ![e] = Tail(@)]
    /\ UNCHANGED evars

\* The client writes the next n bytes of its message on its Connection.
client_write(c, n) ==
    /\ conn[c].st \in {"pending", "accepted"}
    /\ conn[c].upSent + n <= MaxBytes
    /\ conn' = [conn EXCEPT
                   ![c].up = poll_write(@, SubSeq(ClientMsg, conn[c].upSent + 1,
                                                  conn[c].upSent + n)),
                   ![c].upSent = @ + n]
    /\ UNCHANGED <<evars, backlog>>

\* The client reads into a buffer of k bytes from its Connection.
client_read(c, k) ==
    /\ conn[c].st \in {"pending", "accepted"}
    /\ conn[c].down # << >>
    /\ conn' = [conn EXCEPT
                   ![c].downRecv = @ \o poll_read(conn[c].down, k).data,
                   ![c].down = poll_read(@, k).rest]
    /\ UNCHANGED <<evars, backlog>>

\* The server writes the next n bytes of its message on an accepted stream.
server_write(c, n) ==
    /\ conn[c].st = "accepted"
    /\ conn[c].downSent + n <= MaxBytes
    /\ conn' = [conn EXCEPT
                   ![c].down = StreamWrite(@, SubSeq(ServerMsg, conn[c].downSent + 1,
                                                     conn[c].downSent + n)),
                   ![c].downSent = @ + n]
    /\ UNCHANGED <<evars, backlog>>

\* The server reads into a buffer of k bytes from an accepted stream.
server_read(c, k) ==
    /\ conn[c].st = "accepted"
    /\ conn[c].up # << >>
    /\ conn' = [conn EXCEPT
                   ![c].upRecv = @ \o StreamRead(conn[c].up, k).data,
                   ![c].up = StreamRead(@, k).rest]
    /\ UNCHANGED <<evars, backlog>>

\* The handle of the Endpoint that serves in the round trip.
Server == CHOOSE e \in Endpoints : \A o \in Endpoints : e <= o

\* One Endpoint that binds and serves, and clients that connect to it and
\* exchange bytes with it, under every interleaving.
NextConn ==
    \/ \E p \in Paths : new(Server, p)
    \/ \E attrs \in SecurityAttributesInputs : set_security_attributes(Server, attrs)
    \/ incoming_inner(Server)
    \/ incoming_apply_permissions(Server)
    \/ \E c \in Clients, who \in Users, p \in Paths : connect(c, who, p)
    \/ accept(Server)
    \/ \E c \in Clients, n \in 1..MaxBytes : client_write(c, n)
    \/ \E c \in Clients, k \in 1..MaxBytes : client_read(c, k)
    \/ \E c \in Clients, n \in 1..MaxBytes : server_write(c, n)
    \/ \E c \in Clients, k \in 1..MaxBytes : server_read(c, k)

SpecConn == Init /\ [][NextConn]_vars

(***************************************************************************)
(* Steps of the behaviour, as the claims speak of them.                    *)
(***************************************************************************)
\* This step is the return of an incoming() call of e with Ok.
OkReturn(e) ==
    live[e] /\ pc[e] = "apply" /\ pc'[e] = "idle" /\ result'[e].tag = "Ok"

\* This step is the return of an incoming() call of e with an error.
ErrReturn(e) ==
    /\ live[e] /\ live'[e] /\ pc'[e] = "idle" /\ result'[e].tag = "Err"
    /\ (pc[e] = "apply" \/ result'[e] # result[e])

\* This step is e's incoming() issuing the chmod OS call.
ChmodIssued(e) == live[e] /\ pc[e] = "apply" /\ pc'[e] = "idle" /\ result'[e].chmod

\* This step is the drop of the Endpoint in e.
Dropped(e) == live[e] /\ ~live'[e]

\* The Endpoint in e holds a listener that its own bind created.
BoundByBind(e) == live[e] /\ ctor[e] = "new" /\ unix_listener[e] # None

\* The permission bits a SecurityAttributes value stands for: its mode if one
\* is set, the OS default if none is.
ImpliedMode(attrs) == IF attrs = None THEN OSDefaultMode ELSE attrs[1]

\* C1: an Endpoint made by new(path) issues chmod only in a step after the one
\* in which its own bind succeeded: when chmod is issued the bind is already
\* counted and the listener is already stored.
C1_BindBeforeChmod ==
    [][\A e \in Endpoints :
          (ChmodIssued(e) /\ ctor[e] = "new")
              => (binds[e] >= 1 /\ unix_listener[e] # None)]_vars

\* C1 witness: between the two steps the file made by e's bind is visible with
\* the OS default mode while e's policy asks for another mode.
C1_Window ==
    \E e \in Endpoints :
        /\ live[e] /\ ctor[e] = "new" /\ pc[e] = "apply" /\ entry[e] = None
        /\ security_attributes[e] # None
        /\ security_attributes[e][1] # OSDefaultMode
        /\ fs[path[e]] = [exists |-> TRUE, mode |-> OSDefaultMode, creator |-> e]

\* C2: when the first Ok incoming() of an Endpoint made by new(path) returns,
\* the file at its path has the mode its SecurityAttributes imply.
C2_FirstOkMode ==
    [][\A e \in Endpoints :
          (OkReturn(e) /\ oks[e] = 0 /\ ctor[e] = "new" /\ fs'[path[e]].exists)
              => fs'[path[e]].mode = ImpliedMode(security_attributes[e])]_vars

\* C3: when incoming() returns an error, the listener is what it was when the
\* call was entered.
C3_ErrKeepsListener ==
    [][\A e \in Endpoints : ErrReturn(e) => unix_listener'[e] = entry[e]]_vars

\* C4: while one Endpoint on a path holds a listener made by a completed
\* incoming(), the bind of another Endpoint on that path does not succeed.
C4_ExclusiveBind ==
    [][\A e \in Endpoints :
          (live[e] /\ binds'[e] > binds[e])
              => ~\E o \in Endpoints \ {e} :
                     BoundByBind(o) /\ path[o] = path[e] /\ oks[o] >= 1]_vars

\* C5: the drop of an Endpoint that bound its path leaves no file at the path.
C5_DropRemoves ==
    [][\A e \in Endpoints :
          (Dropped(e) /\ binds[e] >= 1) => ~fs'[path[e]].exists]_vars

\* C5 witness: an Endpoint that had bound p1 is dropped and no file is there.
C5_Dropped ==
    \E e \in Endpoints :
        ~live[e] /\ ctor[e] = "new" /\ binds[e] = 1 /\ ~FileExists(path[e])

\* C6 as written: for every live Endpoint the file at its path exists iff its
\* listener is populated and was created by bind.
C6_FileIffBound ==
    \A e \in Endpoints : live[e] => (FileExists(path[e]) <=> BoundByBind(e))

\* C6 amended: a file exists at a path only if a live Endpoint with that path,
\* the one whose bind created it, holds a listener created by bind.
C6_FileOnlyIfBound ==
    \A p \in Paths :
        fs[p].exists =>
            /\ fs[p].creator \in Endpoints
            /\ BoundByBind(fs[p].creator)
            /\ path[fs[p].creator] = p

\* C6 witness: a file exists, created by a bound Endpoint, while another live
\* Endpoint with the same path has no listener.
C6_SharedPath ==
    \E e \in Endpoints, o \in Endpoints :
        /\ e # o /\ live[o] /\ path[o] = path[e] /\ unix_listener[o] = None
        /\ BoundByBind(e) /\ FileExists(path[e]) /\ fs[path[e]].creator = e

C8_AdoptedNoChmod ==
    \A e \in Endpoints :
        (live[e] /\ ctor[e] = "from_raw_fd")
            => /\ path[e] = EmptyPath /\ unix_listener[e] = Some(0) /\ binds[e] = 0
               /\ ~result[e].chmod
               /\ result[e].tag \in {"None", "Ok"}

\* C9: the drop of an Endpoint made by from_raw_fd leaves every file in place.
C9_AdoptedDropKeepsFiles ==
    [][\A e \in Endpoints :
          (Dropped(e) /\ ctor[e] = "from_raw_fd") => fs' = fs]_vars

\* C9 witness: an adopted Endpoint has been dropped and a socket file exists.
C9_AdoptedDropped ==
    \E e \in Endpoints :
        ~live[e] /\ ctor[e] = "from_raw_fd" /\ \E p \in Paths : fs[p].exists

\* C10 as written: when an incoming() after the first Ok one returns Ok, the
\* file at the path, if it exists, has the mode the current SecurityAttributes
\* imply (the OS default if no mode is set).
C10_RepeatAppliesAny ==
    [][\A e \in Endpoints :
          (OkReturn(e) /\ oks[e] >= 1 /\ ctor[e] = "new" /\ fs'[path[e]].exists)
              => fs'[path[e]].mode = ImpliedMode(security_attributes[e])]_vars

\* C10 amended: when an incoming() after the first Ok one returns Ok and the
\* current SecurityAttributes have a mode set, the file at the path exists and
\* has that mode.
C10_RepeatAppliesMode ==
    [][\A e \in Endpoints :
          (OkReturn(e) /\ oks[e] >= 1 /\ security_attributes[e] # None)
              => (path[e] \in Paths /\ fs'[path[e]].exists
                  /\ fs'[path[e]].mode = security_attributes[e][1])]_vars

\* C10 witness: a repeated incoming() has applied a mode that differs from
\* the OS default to the file of a bound Endpoint.
C10_Reapplied ==
    \E e \in Endpoints :
        /\ live[e] /\ ctor[e] = "new" /\ oks[e] = 2 /\ pc[e] = "idle"
        /\ result[e].tag = "Ok" /\ result[e].chmod
        /\ FileExists(path[e])
        /\ fs[path[e]].mode = security_attributes[e][1]

\* C11 as written: an Endpoint made by new(path) issues chmod only in the
\* incoming() call that bound its listener, once per bind and not again.
C11_ChmodOncePerBind ==
    [][\A e \in Endpoints :
          (ChmodIssued(e) /\ ctor[e] = "new") => entry[e] = None]_vars

\* C11 amended: a successful bind is followed at once by the permission
\* application of the same call, and every incoming() call that gets past
\* the bind, the later ones too, issues chmod iff a mode is set.
C11_ChmodEveryCall ==
    [][\A e \in Endpoints :
          /\ (live[e] /\ binds'[e] > binds[e]) => pc'[e] = "apply"
          /\ (live[e] /\ pc[e] = "apply" /\ pc'[e] = "idle")
                 => (result'[e].chmod <=> security_attributes[e] # None)]_vars

\* C11 witness: a later incoming() of a bound Endpoint has issued chmod again.
C11_ChmodAgain ==
    \E e \in Endpoints :
        /\ live[e] /\ ctor[e] = "new" /\ binds[e] = 1 /\ oks[e] = 2
        /\ security_attributes[e] = Some(EveryoneMode)
        /\ result[e] = Ok(1, TRUE)

\* C12: a set_security_attributes step changes the stored policy only (the
\* listener, the path and the files stay), and the mode of a file changes
\* only in a step in which an incoming() issues chmod.
C12_SetterFrame ==
    [][/\ \A e \in Endpoints :
             (live[e] /\ live'[e] /\ pc[e] = "idle" /\ pc'[e] = "idle"
                 /\ security_attributes'[e] # security_attributes[e])
                 => (fs' = fs /\ unix_listener' = unix_listener /\ path' = path)
       /\ \A p \in Paths :
             (fs[p].exists /\ fs'[p].exists /\ fs'[p].mode # fs[p].mode)
                 => \E e \in Endpoints : ChmodIssued(e) /\ path[e] = p]_vars

\* C12 witness: a bound Endpoint has a new policy installed that its file does
\* not have yet.
C12_PolicyPending ==
    \E e \in Endpoints :
        /\ live[e] /\ ctor[e] = "new" /\ pc[e] = "idle" /\ oks[e] >= 1
        /\ security_attributes[e] # None
        /\ FileExists(path[e]) /\ fs[path[e]].creator = e
        /\ fs[path[e]].mode # security_attributes[e][1]

\* C13: when no mode is set, the permission step of incoming() issues no
\* chmod and leaves every file as it is, so a file the call has just bound
\* keeps the OS default mode.
C13_NoModeNoChmod ==
    [][\A e \in Endpoints :
          (live[e] /\ pc[e] = "apply" /\ pc'[e] = "idle"
              /\ security_attributes[e] = None)
              => (~result'[e].chmod /\ fs' = fs)]_vars

\* C13 witness: incoming() returned Ok without chmod and the file the Endpoint
\* bound has the OS default mode.
C13_DefaultKept ==
    \E e \in Endpoints :
        /\ live[e] /\ ctor[e] = "new" /\ security_attributes[e] = None
        /\ result[e] = Ok(1, FALSE)
        /\ fs[path[e]] = [exists |-> TRUE, mode |-> OSDefaultMode, creator |-> e]

\* C14: while an Endpoint is live, a populated listener stays the listener it
\* is; no step makes it unset or replaces it.
C14_ListenerStays ==
    [][\A e \in Endpoints :
          (live[e] /\ live'[e] /\ unix_listener[e] # None)
              => unix_listener'[e] = unix_listener[e]]_vars

\* C14 witness: an incoming() has failed on an Endpoint whose listener is
\* populated, and the listener is still there.
C14_FailedButBound ==
    \E e \in Endpoints :
        /\ live[e] /\ pc[e] = "idle" /\ result[e].tag = "Err"
        /\ unix_listener[e] # None

C17_UnboundDropKeepsFiles ==
    [][\A e \in Endpoints :
          (Dropped(e) /\ ctor[e] = "new" /\ binds[e] = 0) => fs' = fs]_vars

\* C18: a chmod issued by an Endpoint's incoming() does not change the mode
\* of a file that the bind of another Endpoint created.
C18_ChmodOwnFileOnly ==
    [][\A e \in Endpoints :
          (ChmodIssued(e) /\ FileExists(path[e]) /\ fs[path[e]].creator # e)
              => fs'[path[e]].mode = fs[path[e]].mode]_vars

\* C19: when a first incoming() (no listener at entry) returns an error, the
\* Endpoint holds no listener and no file that the call created is left.
C19_AllOrNothing ==
    [][\A e \in Endpoints :
          (ErrReturn(e) /\ ctor[e] = "new" /\ entry[e] = None)
              => /\ unix_listener'[e] = None
                 /\ ~(fs'[path[e]].exists /\ fs'[path[e]].creator = e)]_vars

\* A sequence is a prefix of another.
IsPrefix(a, b) == Len(a) <= Len(b) /\ a = SubSeq(b, 1, Len(a))

\* The Endpoint in e is bound at p by its own bind and incoming() has
\* returned Ok with allow_everyone_connect applied to the file.
BoundForEveryone(e, p) ==
    /\ BoundByBind(e) /\ path[e] = p /\ pc[e] = "idle"
    /\ security_attributes[e] = allow_everyone_connect(empty)
    /\ result[e] = Ok(1, TRUE)
    /\ fs[p] = [exists |-> TRUE, mode |-> EveryoneMode, creator |-> e]

\* This step is the return of client c's Endpoint::connect call.
ConnectStep(c) == conn[c].st = "init" /\ conn'[c].st # "init"

\* C16: a connect made while the Endpoint is bound for everyone succeeds,
\* whoever calls it, and is queued at that Endpoint's listener; the
\* incoming() stream yields the queued connections oldest first; and on every
\* connection each side has read a prefix of what the other side has written,
\* in write order.
C16_RoundTrip ==
    /\ [][\A c \in Clients :
             (ConnectStep(c) /\ \E p \in Paths : BoundForEveryone(Server, p))
                 => /\ conn'[c].st = "pending" /\ conn'[c].server = Server
                    /\ backlog'[Server] = Append(backlog[Server], c)]_vars
    /\ [][\A c \in Clients :
             (conn[c].st = "pending" /\ conn'[c].st = "accepted")
                 => /\ c = Head(backlog[conn[c].server])
                    /\ result[conn[c].server].tag = "Ok"]_vars
    /\ [](\A c \in Clients :
             /\ IsPrefix(conn[c].upRecv, SubSeq(ClientMsg, 1, conn[c].upSent))
             /\ IsPrefix(conn[c].downRecv, SubSeq(ServerMsg, 1, conn[c].downSent)))

\* C16 witness: a client connected to the Endpoint bound for everyone, the
\* stream yielded its connection, and both sides have read the whole message
\* of the other side.
C16_Exchanged ==
    \E c \in Clients, p \in Paths :
        /\ BoundForEveryone(Server, p)
        /\ conn[c].st = "accepted" /\ conn[c].server = Server
        /\ conn[c].upRecv = ClientMsg /\ conn[c].downRecv = ServerMsg

====
